---- MODULE Spec2Model ----
(***************************************************************************)
(* The Databricks REST-polling adapter of sqltoolkit/connectors.py:        *)
(* DatabricksSQLConnection (_execute_statement, _poll_for_completion,      *)
(* run_query) and DatabricksCursor (execute, fetchall, close).             *)
(*                                                                         *)
(* One cursor on one connection.  An execute is a sequence of steps, one   *)
(* per network call or sleep: ExecuteSubmit (the POST and everything up to *)
(* the first GET), PollGet (one loop iteration of _poll_for_completion up  *)
(* to its sleep) and Sleep.  The step that receives the final payload also *)
(* runs run_query's shaping and the cursor's assignments, as the code does *)
(* on return.                                                              *)
(*                                                                         *)
(* Python's Optional values are sequences of length at most one: <<>> is   *)
(* None (or an absent JSON member), <<v>> is the value v.                  *)
(***************************************************************************)
EXTENDS Integers, Sequences, FiniteSets

\* ------------------------------------------------------------------ bounds
\* largest configured max_poll_attempts
MaxAttempts == 2
\* GET calls of one execute the model follows (cuts the unbounded loop)
MaxGets == 3
\* execute calls on the cursor
MaxExecutes == 2
\* fetchall calls counted since the last execute or close
MaxFetch == 2
\* close calls counted since the last execute
MaxClose == 2
\* columns of a schema manifest, and values of a data_array row
MaxCols == 2
\* rows of a data_array
MaxRows == 2
\* requests served by the two front-ends together
MaxRequests == 3

\* ------------------------------------------------------------ JSON payloads
\* a JSON member that is absent, or a Python None once read
Absent == "<absent>"
\* a JSON member that is present and null
Null == "<null>"

\* status.state values of the Statement Execution API, or none at all
States == {Absent, "PENDING", "RUNNING", "SUCCEEDED", "FAILED", "CANCELED", "CLOSED"}
TerminalStates == {"SUCCEEDED", "FAILED", "CANCELED"}

\* statement_id: absent, the empty string, or an id
StatementIds == {Absent, "", "stmt-1"}

\* status.error: absent (<<>>), or an object whose message is absent, null,
\* the empty string or a text
ErrorObjects == {<<>>, <<Absent>>, <<Null>>, <<"">>, <<"syntax error">>}

ColumnNames == {"colA", "colB"}
\* JSON_ARRAY cells are strings
Cells == {"1", "2"}
\* what pandas puts where a row is shorter than the widest row
NoneCell == "None"

SeqsUpTo(S, n) == UNION {[1..k -> S] : k \in 0..n}

\* result: absent, or {manifest?: {schema?: [{name}...]}, data_array?: [[...]]}
SchemaEntries == {[name |-> n] : n \in ColumnNames}
Schemas(maxc) == {<<>>} \cup {<<s>> : s \in SeqsUpTo(SchemaEntries, maxc)}
Manifests(maxc) == {<<>>} \cup {<<[schema |-> s]>> : s \in Schemas(maxc)}
DataArrays(maxc, maxr) == {<<>>} \cup {<<d>> : d \in SeqsUpTo(SeqsUpTo(Cells, maxc), maxr)}
Results(maxc, maxr) ==
    {<<>>} \cup {<<[manifest |-> m, data_array |-> d]>> :
                    m \in Manifests(maxc), d \in DataArrays(maxc, maxr)}

\* a response: ok is FALSE when requests raises (raise_for_status, transport)
Response(ok, id, state, error, result) ==
    [ok |-> ok, statement_id |-> id, state |-> state, error |-> error, result |-> result]

HttpFailure == Response(FALSE, Absent, Absent, <<>>, <<>>)

\* the results the protocol specification draws from
SampleResults ==
    { <<>>,
      <<[manifest |-> <<[schema |-> <<<<>>>>]>>, data_array |-> <<<<<<"1">>>>>>]>>,
      <<[manifest |-> <<[schema |-> <<<<[name |-> "colA"]>>>>]>>, data_array |-> <<<<>>>>]>>,
      <<[manifest |-> <<[schema |-> <<<<[name |-> "colB"], [name |-> "colA"]>>>>]>>,
         data_array |-> <<<<<<"2", "1">>>>>>]>> }

\* payloads with the given statement ids: the error object matters for
\* FAILED and CANCELED only, the result for SUCCEEDED only
Payloads(ids, results) ==
    {Response(TRUE, id, st, <<>>, <<>>) :
        id \in ids, st \in States \ TerminalStates}
    \cup {Response(TRUE, id, st, e, <<>>) :
        id \in ids, st \in {"FAILED", "CANCELED"}, e \in ErrorObjects}
    \cup {Response(TRUE, id, "SUCCEEDED", <<>>, r) : id \in ids, r \in results}

\* ---------------------------------------------------------------- state
VARIABLES
    max_poll_attempts,  \* DatabricksSQLConnection.max_poll_attempts (Optional[int])
    pc,                 \* where the cursor's caller is: "idle", "poll", "sleep"
    initial,            \* _execute_statement: the submit response, <<>> before any
    statement_id,       \* _execute_statement: the id being polled
    attempts,           \* _poll_for_completion: attempts
    posts,              \* POST calls issued by the current execute
    gets,               \* GET calls issued by the current execute
    sleeps,             \* time.sleep calls of the current execute
    reported,           \* the first response of this execute with a terminal state
    outcome,            \* how the last execute ended
    final_payload,      \* run_query: final_payload of the last execute that returned
    df,                 \* DatabricksCursor._df
    description,        \* DatabricksCursor.description
    executes,           \* execute calls issued on the cursor
    df_execute,         \* the execute call that assigned the held _df
    fetched,            \* what the last fetchall returned, <<>> if none since
    fetches,            \* fetchall calls since the last execute or close
    closes,             \* close calls since the last execute
    poll_interval,      \* DatabricksSQLConnection.poll_interval
    slept,              \* seconds slept by the current execute
    peer,               \* a second cursor's attributes and its caller's locals
    current,            \* which of the two cursors the variables above belong to
    config,             \* the connector configuration mapping
    connector,          \* the connector the factory produced, <<>> if none
    connection,         \* the connection get_conn produced, <<>> if none
    factory_outcome,    \* how the factory call ended
    built,              \* what _build_connector gave: its outcome and connector
    CLIENT,             \* server.py _CLIENT: <<>> for None, or the client's number
    SQL_CLIENT,         \* function_app.py _SQL_CLIENT, the same way
    constructed,        \* DatabaseClient objects each front-end has constructed
    ended,              \* how the last request of each front-end ended
    requests            \* requests served by both front-ends

\* one cursor, its connection's polling policy and its caller's position
cursor_vars == <<max_poll_attempts, pc, initial, statement_id, attempts, posts, gets,
                 sleeps, reported, outcome, final_payload, df, description, executes,
                 df_execute, fetched, fetches, closes, poll_interval, slept>>

\* what no operation of a cursor touches
\* the two front-ends: their cached clients and their requests
frontend_vars == <<built, CLIENT, SQL_CLIENT, constructed, ended, requests>>

other_vars == <<peer, current, config, connector, connection, factory_outcome, frontend_vars>>

vars == <<cursor_vars, other_vars>>

\* ------------------------------------------------- the code's pure parts
\* Python truthiness of a string member: absent, None and "" are falsy
Truthy(s) == s \notin {Absent, Null, ""}

\* how an execute ended
NoOutcome == [kind |-> "none", exc |-> "", text |-> <<>>]
Running == [kind |-> "running", exc |-> "", text |-> <<>>]
Returned == [kind |-> "returned", exc |-> "", text |-> <<>>]
Raised(exc, text) == [kind |-> "raised", exc |-> exc, text |-> text]
\* the exceptions, with their message as the pieces of the f-string
MissingStatementId == Raised("RuntimeError", <<"Databricks response missing statement_id.">>)
QueryFailed(message) == Raised("RuntimeError", <<"Databricks query failed: ", message>>)
TimedOut == Raised("RuntimeError", <<"Timed out waiting for Databricks query to finish.">>)
HTTPError == Raised("HTTPError", <<>>)
ValueError == Raised("ValueError", <<>>)

UnknownError == "Unknown Databricks error."

\* ((payload.get("status") or {}).get("error") or {}).get("message", default),
\* as the f-string prints it: a null message prints as None
ErrorMessage(payload) ==
    IF payload.error = <<>> THEN UnknownError
    ELSE IF payload.error[1] = Absent THEN UnknownError
    ELSE IF payload.error[1] = Null THEN "None"
    ELSE payload.error[1]

\* a faulty _execute_statement that requires the statement_id before it looks
\* at the status
execute_statement_id_first(init) ==
    IF ~Truthy(init.statement_id) THEN "raise"
    ELSE IF init.state = "SUCCEEDED" THEN "return"
    ELSE "poll"

\* a faulty _execute_statement that polls without checking the statement_id
execute_statement_no_id_check(init) ==
    IF init.state = "SUCCEEDED" THEN "return" ELSE "poll"

\* _execute_statement after the POST: "return", "raise" or "poll"
execute_statement(init) ==
    IF init.state = "SUCCEEDED" THEN "return"
    ELSE IF ~Truthy(init.statement_id) THEN "raise"
    ELSE "poll"

\* a faulty loop body that checks the attempt budget before the status
poll_for_completion_budget_first(payload, n, max) ==
    IF max # <<>> /\ n + 1 >= max[1] THEN "timeout"
    ELSE IF payload.state = "SUCCEEDED" THEN "return"
    ELSE IF payload.state \in {"FAILED", "CANCELED"} THEN "failed"
    ELSE "sleep"

\* a faulty loop body that reads an unset budget as a budget of zero
poll_for_completion_unset_is_zero(payload, n, max) ==
    IF payload.state = "SUCCEEDED" THEN "return"
    ELSE IF payload.state \in {"FAILED", "CANCELED"} THEN "failed"
    ELSE IF max = <<>> \/ n + 1 >= max[1] THEN "timeout"
    ELSE "sleep"

\* a faulty loop body that never gives up
poll_for_completion_no_budget(payload, n, max) ==
    IF payload.state = "SUCCEEDED" THEN "return"
    ELSE IF payload.state \in {"FAILED", "CANCELED"} THEN "failed"
    ELSE "sleep"

\* one iteration of _poll_for_completion after its GET, with `n` attempts
\* counted before it: "return", "failed", "timeout" or "sleep"
poll_for_completion(payload, n, max) ==
    IF payload.state = "SUCCEEDED" THEN "return"
    ELSE IF payload.state \in {"FAILED", "CANCELED"} THEN "failed"
    ELSE IF max # <<>> /\ n + 1 >= max[1] THEN "timeout"
    ELSE "sleep"

\* run_query: schema, columns and data_array of the final payload
SchemaOf(payload) ==
    IF payload.result = <<>> THEN <<>>
    ELSE IF payload.result[1].manifest = <<>> THEN <<>>
    ELSE IF payload.result[1].manifest[1].schema = <<>> THEN <<>>
    ELSE payload.result[1].manifest[1].schema[1]

ColumnsOf(payload) == [i \in 1..Len(SchemaOf(payload)) |-> SchemaOf(payload)[i].name]

DataArrayOf(payload) ==
    IF payload.result = <<>> THEN <<>>
    ELSE IF payload.result[1].data_array = <<>> THEN <<>>
    ELSE payload.result[1].data_array[1]

\* pandas: the widest row of a list of lists
Width(data) ==
    IF data = <<>> THEN 0
    ELSE CHOOSE w \in {Len(data[i]) : i \in 1..Len(data)} :
            \A i \in 1..Len(data) : Len(data[i]) <= w

\* pd.DataFrame(): no columns, no rows
EmptyFrame == [columns |-> <<>>, rows |-> <<>>]

\* pd.DataFrame(data, columns=columns) raises ValueError when the widest row
\* has not as many values as there are columns
DataFrameRaises(data, columns) == data # <<>> /\ Width(data) # Len(columns)

\* a faulty frame whose columns come out in reverse schema order
DataFrame_reversed_columns(data, columns) ==
    [columns |-> [i \in 1..Len(columns) |-> columns[Len(columns) + 1 - i]],
     rows |-> [r \in 1..Len(data) |->
                 [i \in 1..Len(columns) |->
                     IF i <= Len(data[r]) THEN data[r][i] ELSE NoneCell]]]

\* pd.DataFrame(data, columns=columns): shorter rows are filled with None
DataFrame(data, columns) ==
    [columns |-> columns,
     rows |-> [r \in 1..Len(data) |->
                 [i \in 1..Len(columns) |->
                     IF i <= Len(data[r]) THEN data[r][i] ELSE NoneCell]]]

RunQueryRaises(payload) ==
    ColumnsOf(payload) # <<>> /\ DataFrameRaises(DataArrayOf(payload), ColumnsOf(payload))

\* a faulty run_query without the `if not columns` branch, with a frame
\* constructor that accepts rows wider than the columns
run_query_no_empty_guard(payload) ==
    [columns |-> ColumnsOf(payload), rows |-> DataArrayOf(payload)]

\* run_query on a payload whose frame can be built
run_query(payload) ==
    IF ColumnsOf(payload) = <<>> THEN EmptyFrame
    ELSE DataFrame(DataArrayOf(payload), ColumnsOf(payload))

\* DataFrame.empty: some axis has length 0
Empty(frame) == Len(frame.columns) = 0 \/ Len(frame.rows) = 0

\* DatabricksCursor.execute: the description of a frame
DescriptionOf(frame) ==
    [i \in 1..Len(frame.columns) |->
        <<frame.columns[i], "None", "None", "None", "None", "None", "None">>]

\* DatabricksCursor.fetchall on the held _df
fetchall(held) ==
    IF held = <<>> THEN <<>>
    ELSE IF Empty(held[1]) THEN <<>>
    ELSE held[1].rows

\* ---------------------------------------------------------------- actions
\* the default of DatabricksSQLConnection.__init__ and DatabricksConnector
DefaultMaxPollAttempts == 120
\* the default poll_interval, in seconds
DefaultPollInterval == 2

PollBudgets == {<<>>} \cup {<<n>> : n \in -1..MaxAttempts}

\* a cursor just made by connection.cursor(), on a connection built with
\* max_poll_attempts = budget
Start(budget) ==
    /\ max_poll_attempts = budget
    /\ pc = "idle"
    /\ initial = <<>>
    /\ statement_id = Absent
    /\ attempts = 0
    /\ posts = 0
    /\ gets = 0
    /\ sleeps = 0
    /\ reported = <<>>
    /\ outcome = NoOutcome
    /\ final_payload = <<>>
    /\ df = <<>>
    /\ description = <<>>
    /\ executes = 0
    /\ df_execute = 0
    /\ fetched = <<>>
    /\ fetches = 0
    /\ closes = 0
    /\ poll_interval = DefaultPollInterval
    /\ slept = 0

\* the front-ends as their modules are loaded: no client, no request yet
FrontEnds == {"mcp", "func"}

NoRequest ==
    /\ built = <<>>
    /\ CLIENT = <<>>
    /\ SQL_CLIENT = <<>>
    /\ constructed = [f \in FrontEnds |-> 0]
    /\ ended = [f \in FrontEnds |-> "none"]
    /\ requests = 0

\* no second cursor, no connector factory call
Alone ==
    /\ NoRequest
    /\ peer = <<>>
    /\ current = 1
    /\ config = <<>>
    /\ connector = <<>>
    /\ connection = <<>>
    /\ factory_outcome = NoOutcome

Init == Alone /\ \E budget \in PollBudgets : Start(budget)

\* a faulty execute that clears description, and not _df, when it raises
Raise_clears_description(exc) ==
    /\ pc' = "idle"
    /\ outcome' = exc
    /\ final_payload' = <<>>
    /\ description' = <<>>
    /\ UNCHANGED <<df, df_execute>>

\* execute ends by raising: DatabricksCursor.execute assigns nothing
Raise(exc) ==
    /\ pc' = "idle"
    /\ outcome' = exc
    /\ final_payload' = <<>>
    /\ UNCHANGED <<df, description, df_execute>>

\* _execute_statement returns `payload`: run_query shapes it and
\* DatabricksCursor.execute assigns _df and description, in execute number n
Return(payload, n) ==
    /\ pc' = "idle"
    /\ final_payload' = <<payload>>
    /\ IF RunQueryRaises(payload)
       THEN /\ outcome' = ValueError
            /\ UNCHANGED <<df, description, df_execute>>
       ELSE /\ outcome' = Returned
            /\ df' = <<run_query(payload)>>
            /\ description' = <<DescriptionOf(run_query(payload))>>
            /\ df_execute' = n

\* cursor.execute(statement) up to the first GET: the POST of
\* _submit_statement answered by `response`, then _execute_statement
ExecuteSubmit(response) ==
    /\ pc = "idle"
    /\ executes < MaxExecutes
    /\ executes' = executes + 1
    /\ posts' = 1
    /\ gets' = 0
    /\ sleeps' = 0
    /\ attempts' = 0
    /\ fetched' = <<>>
    /\ fetches' = 0
    /\ closes' = 0
    /\ initial' = IF response.ok THEN <<response>> ELSE <<>>
    /\ reported' = IF response.ok /\ response.state \in TerminalStates
                   THEN <<response>> ELSE <<>>
    /\ statement_id' = IF response.ok THEN response.statement_id ELSE Absent
    /\ slept' = 0
    /\ UNCHANGED <<max_poll_attempts, poll_interval, other_vars>>
    /\ IF ~response.ok THEN Raise(HTTPError)
       ELSE IF execute_statement(response) = "return" THEN Return(response, executes + 1)
       ELSE IF execute_statement(response) = "raise" THEN Raise(MissingStatementId)
       ELSE /\ pc' = "poll"
            /\ outcome' = Running
            /\ final_payload' = <<>>
            /\ UNCHANGED <<df, description, df_execute>>

\* one iteration of the loop of _poll_for_completion: the GET answered by
\* `response`, then the status checks and the attempt count
PollGet(response) ==
    /\ pc = "poll"
    /\ gets < MaxGets
    /\ gets' = gets + 1
    /\ reported' = IF reported = <<>> /\ response.ok /\ response.state \in TerminalStates
                   THEN <<response>> ELSE reported
    /\ UNCHANGED <<max_poll_attempts, initial, statement_id, posts, sleeps, executes,
                   fetched, fetches, closes, poll_interval, slept, other_vars>>
    /\ IF ~response.ok
       THEN Raise(HTTPError) /\ UNCHANGED attempts
       ELSE IF poll_for_completion(response, attempts, max_poll_attempts) = "return"
       THEN Return(response, executes) /\ UNCHANGED attempts
       ELSE IF poll_for_completion(response, attempts, max_poll_attempts) = "failed"
       THEN Raise(QueryFailed(ErrorMessage(response))) /\ UNCHANGED attempts
       ELSE IF poll_for_completion(response, attempts, max_poll_attempts) = "timeout"
       THEN Raise(TimedOut) /\ attempts' = attempts + 1
       ELSE /\ pc' = "sleep"
            /\ attempts' = attempts + 1
            /\ UNCHANGED <<outcome, final_payload, df, description, df_execute>>

\* a faulty sleep that backs off: the interval grows with the attempts
Sleep_backoff ==
    /\ pc = "sleep"
    /\ pc' = "poll"
    /\ sleeps' = sleeps + 1
    /\ slept' = slept + poll_interval * attempts
    /\ UNCHANGED <<max_poll_attempts, initial, statement_id, attempts, posts, gets,
                   reported, outcome, final_payload, df, description, executes,
                   df_execute, fetched, fetches, closes, poll_interval, other_vars>>

\* time.sleep(self.poll_interval) at the end of a loop iteration
Sleep ==
    /\ pc = "sleep"
    /\ pc' = "poll"
    /\ sleeps' = sleeps + 1
    /\ slept' = slept + poll_interval
    /\ UNCHANGED <<max_poll_attempts, initial, statement_id, attempts, posts, gets,
                   reported, outcome, final_payload, df, description, executes,
                   df_execute, fetched, fetches, closes, poll_interval, other_vars>>

\* a faulty fetchall that consumes the rows it returns, as a streaming
\* cursor would
Fetchall_consuming ==
    /\ pc = "idle"
    /\ fetches < MaxFetch
    /\ fetched' = <<fetchall(df)>>
    /\ fetches' = fetches + 1
    /\ df' = IF df = <<>> THEN <<>> ELSE <<[df[1] EXCEPT !.rows = <<>>]>>
    /\ UNCHANGED <<max_poll_attempts, pc, initial, statement_id, attempts, posts, gets,
                   sleeps, reported, outcome, final_payload, description, executes,
                   df_execute, closes, poll_interval, slept, other_vars>>

\* cursor.fetchall()
Fetchall ==
    /\ pc = "idle"
    /\ fetches < MaxFetch
    /\ fetched' = <<fetchall(df)>>
    /\ fetches' = fetches + 1
    /\ UNCHANGED <<max_poll_attempts, pc, initial, statement_id, attempts, posts, gets,
                   sleeps, reported, outcome, final_payload, df, description, executes,
                   df_execute, closes, poll_interval, slept, other_vars>>

\* a faulty close that clears description and keeps _df
Close_keeps_df ==
    /\ pc = "idle"
    /\ closes < MaxClose
    /\ description' = <<>>
    /\ closes' = closes + 1
    /\ fetched' = <<>>
    /\ fetches' = 0
    /\ UNCHANGED <<max_poll_attempts, pc, initial, statement_id, attempts, posts, gets,
                   sleeps, reported, outcome, final_payload, executes, df_execute, df,
                   poll_interval, slept, other_vars>>

\* cursor.close()
Close ==
    /\ pc = "idle"
    /\ closes < MaxClose
    /\ df' = <<>>
    /\ description' = <<>>
    /\ closes' = closes + 1
    /\ fetched' = <<>>
    /\ fetches' = 0
    /\ UNCHANGED <<max_poll_attempts, pc, initial, statement_id, attempts, posts, gets,
                   sleeps, reported, outcome, final_payload, executes, df_execute,
                   poll_interval, slept, other_vars>>

\* what the backend may answer to the POST, and to a GET of the polled id
SubmitResponses == {HttpFailure} \cup Payloads(StatementIds, SampleResults)
PollResponses == {HttpFailure} \cup Payloads({statement_id}, SampleResults)

Next ==
    \/ \E response \in SubmitResponses : ExecuteSubmit(response)
    \/ \E response \in PollResponses : PollGet(response)
    \/ Sleep
    \/ Fetchall
    \/ Close

Spec == Init /\ [][Next]_vars

\* One statement that the backend answers SUCCEEDED at once, over every
\* shape of result within the bounds, then fetchall and close
ShapeResponses ==
    {Response(TRUE, "stmt-1", "SUCCEEDED", <<>>, r) : r \in Results(MaxCols, MaxRows)}

InitShape == Alone /\ Start(<<DefaultMaxPollAttempts>>)

NextShape ==
    \/ executes = 0 /\ \E response \in ShapeResponses : ExecuteSubmit(response)
    \/ Fetchall
    \/ Close

SpecShape == InitShape /\ [][NextShape]_vars

\* The poll loop with max_poll_attempts unset, against a backend whose
\* statements end: its answer to the MaxGets-th GET of an execute carries a
\* terminal status. The code runs each step of the loop as soon as the one
\* before it ends (requests.get returns within request_timeout, time.sleep
\* returns), which is weak fairness of the GET and of the sleep.
TerminalResponses == {r \in PollResponses : r.ok /\ r.state \in TerminalStates}

InitUnset == Alone /\ Start(<<>>)

PollEnding ==
    \E response \in (IF gets + 1 < MaxGets THEN PollResponses ELSE TerminalResponses) :
        PollGet(response)

NextUnset ==
    \/ \E response \in SubmitResponses : ExecuteSubmit(response)
    \/ PollEnding
    \/ Sleep

SpecUnset == InitUnset /\ [][NextUnset]_vars /\ WF_vars(PollEnding) /\ WF_vars(Sleep)

\* The poll loop with max_poll_attempts set to an integer, against a backend
\* that may answer anything to every request, with the same fairness
IntegerBudgets == PollBudgets \ {<<>>}

InitBudget == Alone /\ \E budget \in IntegerBudgets : Start(budget)

PollAny == \E response \in PollResponses : PollGet(response)

NextBudget ==
    \/ \E response \in SubmitResponses : ExecuteSubmit(response)
    \/ PollAny
    \/ Sleep

SpecBudget == InitBudget /\ [][NextBudget]_vars /\ WF_vars(PollAny) /\ WF_vars(Sleep)

\* Two cursors. The variables of `cursor_vars` belong to the cursor whose
\* call path is running; `peer` holds the other cursor's attributes, its
\* connection's polling policy and its caller's locals.
CursorState ==
    [max_poll_attempts |-> max_poll_attempts, pc |-> pc, initial |-> initial,
     statement_id |-> statement_id, attempts |-> attempts, posts |-> posts,
     gets |-> gets, sleeps |-> sleeps, reported |-> reported,
     outcome |-> outcome, final_payload |-> final_payload, df |-> df,
     description |-> description, executes |-> executes, df_execute |-> df_execute,
     fetched |-> fetched, fetches |-> fetches, closes |-> closes,
     poll_interval |-> poll_interval, slept |-> slept]

\* what connection.cursor() returns on a connection with this budget
FreshCursor(budget) ==
    [max_poll_attempts |-> budget, pc |-> "idle", initial |-> <<>>,
     statement_id |-> Absent, attempts |-> 0, posts |-> 0,
     gets |-> 0, sleeps |-> 0, reported |-> <<>>,
     outcome |-> NoOutcome, final_payload |-> <<>>, df |-> <<>>,
     description |-> <<>>, executes |-> 0, df_execute |-> 0,
     fetched |-> <<>>, fetches |-> 0, closes |-> 0,
     poll_interval |-> DefaultPollInterval, slept |-> 0]

\* a faulty cursor class whose _df and description are class attributes,
\* one pair for every cursor
Switch_shared_df ==
    /\ peer # <<>>
    /\ current' = 3 - current
    /\ peer' = <<CursorState>>
    /\ max_poll_attempts' = peer[1].max_poll_attempts
    /\ pc' = peer[1].pc
    /\ initial' = peer[1].initial
    /\ statement_id' = peer[1].statement_id
    /\ attempts' = peer[1].attempts
    /\ posts' = peer[1].posts
    /\ gets' = peer[1].gets
    /\ sleeps' = peer[1].sleeps
    /\ reported' = peer[1].reported
    /\ outcome' = peer[1].outcome
    /\ final_payload' = peer[1].final_payload
    /\ executes' = peer[1].executes
    /\ df_execute' = peer[1].df_execute
    /\ fetched' = peer[1].fetched
    /\ fetches' = peer[1].fetches
    /\ closes' = peer[1].closes
    /\ poll_interval' = peer[1].poll_interval
    /\ slept' = peer[1].slept
    /\ UNCHANGED <<df, description, config, connector, connection, factory_outcome,
                   frontend_vars>>

\* the scheduler leaves one call path and runs the other: every attribute
\* and local is the cursor's own (DatabricksCursor.__init__ assigns instance
\* attributes, the connection's fields are never assigned after __init__)
Switch ==
    /\ peer # <<>>
    /\ current' = 3 - current
    /\ peer' = <<CursorState>>
    /\ max_poll_attempts' = peer[1].max_poll_attempts
    /\ pc' = peer[1].pc
    /\ initial' = peer[1].initial
    /\ statement_id' = peer[1].statement_id
    /\ attempts' = peer[1].attempts
    /\ posts' = peer[1].posts
    /\ gets' = peer[1].gets
    /\ sleeps' = peer[1].sleeps
    /\ reported' = peer[1].reported
    /\ outcome' = peer[1].outcome
    /\ final_payload' = peer[1].final_payload
    /\ df' = peer[1].df
    /\ description' = peer[1].description
    /\ executes' = peer[1].executes
    /\ df_execute' = peer[1].df_execute
    /\ fetched' = peer[1].fetched
    /\ fetches' = peer[1].fetches
    /\ closes' = peer[1].closes
    /\ poll_interval' = peer[1].poll_interval
    /\ slept' = peer[1].slept
    /\ UNCHANGED <<config, connector, connection, factory_outcome, frontend_vars>>

\* the responses the two statements get: an HTTP failure, RUNNING, FAILED,
\* or SUCCEEDED with one of two different results
TwoResults == {r \in SampleResults : r # <<>> /\ SchemaOf(Response(TRUE, "stmt-1", "SUCCEEDED", <<>>, r)) # <<>>}

TwoResponses ==
    {HttpFailure,
     Response(TRUE, "stmt-1", "RUNNING", <<>>, <<>>),
     Response(TRUE, "stmt-1", "FAILED", <<"syntax error">>, <<>>)}
    \cup {Response(TRUE, "stmt-1", "SUCCEEDED", <<>>, r) : r \in TwoResults}

\* two cursors of one connection, or of two connections with different
\* budgets, each of them given one statement
InitTwo ==
    /\ \E budget \in {<<MaxAttempts>>} : Start(budget)
    /\ \E budget \in {<<1>>, <<MaxAttempts>>} : peer = <<FreshCursor(budget)>>
    /\ NoRequest
    /\ current = 1
    /\ config = <<>>
    /\ connector = <<>>
    /\ connection = <<>>
    /\ factory_outcome = NoOutcome

NextTwo ==
    \/ executes = 0 /\ \E response \in TwoResponses : ExecuteSubmit(response)
    \/ \E response \in TwoResponses : PollGet(response)
    \/ Sleep
    \/ Fetchall
    \/ Close
    \/ Switch

SpecTwo == InitTwo /\ [][NextTwo]_vars

\* ------------------------------------------------- the connector factory
\* JSON values of a configuration member besides strings: true, false, a
\* number other than 0, and 0
JsonTrue == "<true>"
JsonFalse == "<false>"
JsonNumber == "<number 5>"
JsonZero == "<number 0>"

\* Python truthiness of a configuration member
ParamTruthy(v) == v \notin {Absent, Null, "", JsonFalse, JsonZero}

\* the keys of connector_map
SupportedTypes == {"AZURE_SQL", "POSTGRESQL", "ODBC", "SNOWFLAKE", "DATABRICKS"}

\* the values of the "type" member the configurations draw from
TypeValues ==
    SupportedTypes
    \cup {"azure_sql", "postgresql", "odbc", "snowflake", "databricks", "Databricks"}
    \cup {"MYSQL", "mysql", " databricks"}
    \cup {Absent, Null, "", JsonZero, JsonNumber}

\* str.upper() on the strings above
upper(t) ==
    CASE t = "azure_sql" -> "AZURE_SQL"
      [] t = "postgresql" -> "POSTGRESQL"
      [] t = "odbc" -> "ODBC"
      [] t = "snowflake" -> "SNOWFLAKE"
      [] t \in {"databricks", "Databricks"} -> "DATABRICKS"
      [] t = "mysql" -> "MYSQL"
      [] t = " databricks" -> " DATABRICKS"
      [] OTHER -> t

\* the parameters of each connector's __init__ without a default, all its
\* named parameters, and whether it takes **kwargs
Required(cls) ==
    CASE cls = "AZURE_SQL" -> {"server", "database"}
      [] cls = "POSTGRESQL" -> {"host", "database", "username", "password"}
      [] cls = "ODBC" -> {"connection_string"}
      [] cls = "SNOWFLAKE" -> {"user", "password", "account", "warehouse", "database", "schema"}
      [] cls = "DATABRICKS" -> {"host", "token", "warehouse_id"}

Accepted(cls) ==
    Required(cls) \cup
    CASE cls = "AZURE_SQL" -> {"use_entra_id", "username", "password"}
      [] cls = "POSTGRESQL" -> {"port"}
      [] cls = "ODBC" -> {}
      [] cls = "SNOWFLAKE" -> {"role"}
      [] cls = "DATABRICKS" -> {"catalog", "schema", "wait_timeout", "poll_interval",
                                "max_poll_attempts", "request_timeout"}

AcceptsKwargs(cls) == cls = "SNOWFLAKE"

\* the key sets of the configurations: for each connector its required
\* parameters, these less one, and these with one more key
KeySets ==
    UNION {{Required(cls)}
           \cup {Required(cls) \ {k} : k \in Required(cls)}
           \cup {Required(cls) \cup {k} : k \in {"use_entra_id", "catalog", "role", "extra"}}
           \cup {Required(cls) \cup {"use_entra_id", "username", "password"}}
           : cls \in SupportedTypes}

\* what a credential may be in the JSON: null, empty, or a text
Credentials == {Null, "", "secret"}

Params(keys, token, warehouse_id, use_entra_id, username) ==
    [k \in keys |->
        CASE k = "token" -> token
          [] k = "warehouse_id" -> warehouse_id
          [] k = "use_entra_id" -> use_entra_id
          [] k \in {"username", "password"} -> username
          [] OTHER -> "value"]

Configs ==
    {[type |-> t, params |-> Params(keys, token, warehouse_id, use_entra_id, username)] :
        t \in TypeValues, keys \in KeySets, token \in Credentials,
        warehouse_id \in Credentials, use_entra_id \in {JsonTrue, JsonFalse},
        username \in {"", "secret"}}

\* an argument of a call, or the parameter's default
Arg(params, k, default) == IF k \in DOMAIN params THEN params[k] ELSE default

\* connector_cls(**kwargs): Python binds the keyword arguments first
BindRaises(cls, params) ==
    \/ ~(Required(cls) \subseteq DOMAIN params)
    \/ ~AcceptsKwargs(cls) /\ ~(DOMAIN params \subseteq Accepted(cls))

\* a faulty DatabricksConnector.__init__ that checks the token only
InitRaises_token_only(cls, params) ==
    \/ cls = "AZURE_SQL"
        /\ ~ParamTruthy(Arg(params, "use_entra_id", JsonTrue))
        /\ (~ParamTruthy(Arg(params, "username", Null)) \/ ~ParamTruthy(Arg(params, "password", Null)))
    \/ cls = "DATABRICKS" /\ ~ParamTruthy(params["token"])

\* the ValueError of a connector's __init__: AzureSQLConnector without
\* Entra ID and without username or password, DatabricksConnector without
\* token or without warehouse_id
InitRaises(cls, params) ==
    \/ cls = "AZURE_SQL"
        /\ ~ParamTruthy(Arg(params, "use_entra_id", JsonTrue))
        /\ (~ParamTruthy(Arg(params, "username", Null)) \/ ~ParamTruthy(Arg(params, "password", Null)))
    \/ cls = "DATABRICKS"
        /\ (~ParamTruthy(params["token"]) \/ ~ParamTruthy(params["warehouse_id"]))

TypeError == Raised("TypeError", <<>>)
AttributeError == Raised("AttributeError", <<"object has no attribute 'upper'">>)
TypeFieldMissing == Raised("ValueError", <<"Connector configuration must include a 'type' field.">>)
Unsupported(connector_type) == Raised("ValueError", <<"Unsupported connector type '", connector_type, "'.">>)
CredentialsMissing == Raised("ValueError", <<"Username and password must be provided for user password authentication.">>)
TokenMissing == Raised("ValueError", <<"A Databricks personal access token is required.">>)
WarehouseMissing == Raised("ValueError", <<"A Databricks SQL warehouse ID is required.">>)

\* connector_cls(**kwargs): the connector, or the exception
Construct(cls, params) ==
    IF BindRaises(cls, params) THEN [outcome |-> TypeError, connector |-> <<>>]
    ELSE IF InitRaises(cls, params)
    THEN [outcome |-> IF cls = "AZURE_SQL" THEN CredentialsMissing
                      ELSE IF ~ParamTruthy(params["token"]) THEN TokenMissing
                      ELSE WarehouseMissing,
          connector |-> <<>>]
    ELSE [outcome |-> Returned, connector |-> <<[type |-> cls, kwargs |-> params]>>]

\* _connector_from_config(config)
connector_from_config(cfg) ==
    IF ~ParamTruthy(cfg.type) THEN [outcome |-> TypeFieldMissing, connector |-> <<>>]
    ELSE IF cfg.type \in {JsonNumber, JsonTrue} THEN [outcome |-> AttributeError, connector |-> <<>>]
    ELSE IF upper(cfg.type) \notin SupportedTypes
    THEN [outcome |-> Unsupported(upper(cfg.type)), connector |-> <<>>]
    ELSE Construct(upper(cfg.type), cfg.params)

\* the front-end builds its connector from the configuration
ConnectorFromConfig ==
    /\ factory_outcome = NoOutcome
    /\ factory_outcome' = connector_from_config(config).outcome
    /\ connector' = connector_from_config(config).connector
    /\ UNCHANGED <<cursor_vars, peer, current, config, connection, frontend_vars>>

\* DatabricksConnector.get_conn(): DatabricksSQLConnection.__init__ keeps
\* the arguments, it sends nothing
GetConn ==
    /\ connector # <<>>
    /\ connector[1].type = "DATABRICKS"
    /\ connection = <<>>
    /\ connection' = <<[token |-> connector[1].kwargs["token"],
                        warehouse_id |-> connector[1].kwargs["warehouse_id"],
                        catalog |-> Arg(connector[1].kwargs, "catalog", Null),
                        poll_interval |-> DefaultPollInterval,
                        max_poll_attempts |-> <<DefaultMaxPollAttempts>>]>>
    /\ UNCHANGED <<cursor_vars, peer, current, config, connector, factory_outcome,
                   frontend_vars>>

InitConfig ==
    /\ Start(<<DefaultMaxPollAttempts>>)
    /\ NoRequest
    /\ peer = <<>>
    /\ current = 1
    /\ config \in Configs
    /\ connector = <<>>
    /\ connection = <<>>
    /\ factory_outcome = NoOutcome

NextConfig ==
    \/ ConnectorFromConfig
    \/ GetConn

SpecConfig == InitConfig /\ [][NextConfig]_vars

\* ------------------------------------------ the HTTP layer's factory
TypeKeyMissing == Raised("ValueError", <<"Connector configuration must include a 'type' key.">>)

\* a faulty _build_connector that looks the type up as it is written
build_connector_case_sensitive(cfg) ==
    IF ~ParamTruthy(cfg.type) THEN [outcome |-> TypeKeyMissing, connector |-> <<>>]
    ELSE IF cfg.type \in {JsonNumber, JsonTrue} THEN [outcome |-> AttributeError, connector |-> <<>>]
    ELSE IF cfg.type \notin SupportedTypes
    THEN [outcome |-> Unsupported(cfg.type), connector |-> <<>>]
    ELSE Construct(cfg.type, cfg.params)

\* _build_connector(config)
build_connector(cfg) ==
    IF ~ParamTruthy(cfg.type) THEN [outcome |-> TypeKeyMissing, connector |-> <<>>]
    ELSE IF cfg.type \in {JsonNumber, JsonTrue} THEN [outcome |-> AttributeError, connector |-> <<>>]
    ELSE IF upper(cfg.type) \notin SupportedTypes
    THEN [outcome |-> Unsupported(upper(cfg.type)), connector |-> <<>>]
    ELSE Construct(upper(cfg.type), cfg.params)

\* the HTTP function layer builds its connector from the configuration
BuildConnector ==
    /\ built = <<>>
    /\ built' = <<build_connector(config)>>
    /\ UNCHANGED <<cursor_vars, peer, current, config, connector, connection,
                   factory_outcome, CLIENT, SQL_CLIENT, constructed, ended, requests>>

\* both front-ends given the same configuration mapping
NextFactories ==
    \/ ConnectorFromConfig
    \/ BuildConnector

SpecFactories == InitConfig /\ [][NextFactories]_vars

\* ------------------------------------------------- the two front-ends
\* SQL_CONNECTOR_CONFIG as the front-ends find it: unset (<<>>), or a
\* mapping for Databricks or for an unsupported type, with every credential
UnsetConfig == <<>>

FrontEndConfigs ==
    {UnsetConfig}
    \cup {c \in Configs : c.type \in {"databricks", "mysql"}
                          /\ DOMAIN c.params = Required("DATABRICKS")}

\* the arguments of the requests: a table name, a statement
TableNames == {"", "orders"}
SqlTexts == {"", "   ", "SELECT 1"}
\* the "query" member of a request body, Absent also for a body that is no JSON
Queries == {Absent} \cup SqlTexts

\* str.strip() on the statements above
strip(text) == IF text = "   " THEN "" ELSE text

Cache(f) == IF f = "mcp" THEN CLIENT ELSE SQL_CLIENT

\* _get_client / _get_sql_client with no cached client: loading the
\* configuration or building the connector raises
GetClientRaises(f) ==
    \/ config = UnsetConfig
    \/ f = "mcp" /\ connector_from_config(config).outcome # Returned
    \/ f = "func" /\ build_connector(config).outcome # Returned

\* what the try statement of a handler leaves: the cached client, the
\* clients constructed and how the handler ended. `ctor_ok`: DatabaseClient
\* (connector) returns; `op_ok`: the client's operation and the shaping of
\* its result inside the try return; `after_ok`: the statements after the
\* try return
Try(f, ctor_ok, op_ok, after_ok) ==
    LET fresh == Cache(f) = <<>>
        got == ~fresh \/ (~GetClientRaises(f) /\ ctor_ok)
        n == constructed[f] + (IF fresh /\ got THEN 1 ELSE 0)
        held == IF fresh THEN <<n>> ELSE Cache(f)
    IN  IF got /\ op_ok
        THEN [cache |-> held, constructed |-> n,
              ended |-> IF after_ok THEN "ok" ELSE "unhandled"]
        ELSE [cache |-> <<>>, constructed |-> n, ended |-> "error"]

\* a faulty error branch that leaves the cached client in place
Handle_no_reset(f, early, ctor_ok, op_ok, after_ok) ==
    /\ requests < MaxRequests
    /\ requests' = requests + 1
    /\ IF early
       THEN /\ ended' = [ended EXCEPT ![f] = "early"]
            /\ UNCHANGED <<CLIENT, SQL_CLIENT, constructed>>
       ELSE /\ ended' = [ended EXCEPT ![f] = Try(f, ctor_ok, op_ok, after_ok).ended]
            /\ constructed' = [constructed EXCEPT ![f] = Try(f, ctor_ok, op_ok, after_ok).constructed]
            /\ CLIENT' = IF f = "mcp" /\ Try(f, ctor_ok, op_ok, after_ok).ended # "error"
                         THEN Try(f, ctor_ok, op_ok, after_ok).cache ELSE CLIENT
            /\ SQL_CLIENT' = IF f = "func" /\ Try(f, ctor_ok, op_ok, after_ok).ended # "error"
                             THEN Try(f, ctor_ok, op_ok, after_ok).cache ELSE SQL_CLIENT
    /\ UNCHANGED <<cursor_vars, peer, current, config, connector, connection,
                   factory_outcome, built>>

\* one request: the early return on invalid input, or the try statement
\* with _reset_client() in its except branch
Handle(f, early, ctor_ok, op_ok, after_ok) ==
    /\ requests < MaxRequests
    /\ requests' = requests + 1
    /\ IF early
       THEN /\ ended' = [ended EXCEPT ![f] = "early"]
            /\ UNCHANGED <<CLIENT, SQL_CLIENT, constructed>>
       ELSE /\ ended' = [ended EXCEPT ![f] = Try(f, ctor_ok, op_ok, after_ok).ended]
            /\ constructed' = [constructed EXCEPT ![f] = Try(f, ctor_ok, op_ok, after_ok).constructed]
            /\ CLIENT' = IF f = "mcp" THEN Try(f, ctor_ok, op_ok, after_ok).cache ELSE CLIENT
            /\ SQL_CLIENT' = IF f = "func" THEN Try(f, ctor_ok, op_ok, after_ok).cache ELSE SQL_CLIENT
    /\ UNCHANGED <<cursor_vars, peer, current, config, connector, connection,
                   factory_outcome, built>>

\* server.py: the four tools
mcp_list_tables ==
    \E ctor_ok \in BOOLEAN, op_ok \in BOOLEAN : Handle("mcp", FALSE, ctor_ok, op_ok, TRUE)

mcp_table_schema ==
    \E table_name \in TableNames, ctor_ok \in BOOLEAN, op_ok \in BOOLEAN :
        Handle("mcp", table_name = "", ctor_ok, op_ok, TRUE)

mcp_query_sql ==
    \E sql \in SqlTexts, ctor_ok \in BOOLEAN, op_ok \in BOOLEAN :
        Handle("mcp", sql = "" \/ strip(sql) = "", ctor_ok, op_ok, TRUE)

mcp_column_values ==
    \E table_name \in TableNames, column_name \in TableNames,
       ctor_ok \in BOOLEAN, op_ok \in BOOLEAN :
        Handle("mcp", table_name = "" \/ column_name = "", ctor_ok, op_ok, TRUE)

\* function_app.py: the three routes
func_list_tables ==
    \E ctor_ok \in BOOLEAN, op_ok \in BOOLEAN : Handle("func", FALSE, ctor_ok, op_ok, TRUE)

func_get_schema ==
    \E table_name \in {Absent} \cup TableNames, ctor_ok \in BOOLEAN, op_ok \in BOOLEAN :
        Handle("func", ~Truthy(table_name), ctor_ok, op_ok, TRUE)

func_run_query ==
    \E query \in Queries, ctor_ok \in BOOLEAN, op_ok \in BOOLEAN, after_ok \in BOOLEAN :
        Handle("func", ~Truthy(query), ctor_ok, op_ok, after_ok)

InitFrontEnds ==
    /\ Start(<<DefaultMaxPollAttempts>>)
    /\ NoRequest
    /\ peer = <<>>
    /\ current = 1
    /\ config \in FrontEndConfigs
    /\ connector = <<>>
    /\ connection = <<>>
    /\ factory_outcome = NoOutcome

NextFrontEnds ==
    \/ mcp_list_tables
    \/ mcp_table_schema
    \/ mcp_query_sql
    \/ mcp_column_values
    \/ func_list_tables
    \/ func_get_schema
    \/ func_run_query

SpecFrontEnds == InitFrontEnds /\ [][NextFrontEnds]_vars

\* ---------------------------------------------------------------- claims
\* what the claims read off a payload and off the cursor
Terminal(reports) == reports # <<>>
Budget == max_poll_attempts[1]
HeldRows == IF df = <<>> THEN <<>> ELSE df[1].rows
FinalSchema == SchemaOf(final_payload[1])
FinalData == DataArrayOf(final_payload[1])
SchemaMissingOrEmpty(payload) ==
    \/ payload.result = <<>>
    \/ payload.result[1].manifest = <<>>
    \/ payload.result[1].manifest[1].schema = <<>>
    \/ payload.result[1].manifest[1].schema[1] = <<>>

\* C1: once a response of the current statement (the POST's or a GET's) has
\* reported SUCCEEDED, FAILED or CANCELED, no further GET is issued for it.
C1_NoGetAfterTerminal ==
    [][(Terminal(reported) /\ executes' = executes) => gets' = gets]_vars

\* C2: with max_poll_attempts = N >= 0 and a backend whose every response is
\* non-terminal and carries a statement_id, execute ends with the timeout
\* error after exactly N GET calls and one POST.
C2_TimeoutAfterExactlyN ==
    (/\ pc = "idle"
     /\ initial # <<>>
     /\ Truthy(statement_id)
     /\ ~Terminal(reported)
     /\ outcome # HTTPError
     /\ max_poll_attempts # <<>>
     /\ Budget >= 0)
    => (outcome = TimedOut /\ gets = Budget /\ posts = 1)

\* C3: once a later execute has ended, returned or raised, neither _df nor
\* description still holds what an earlier execute assigned.
C3_EarlierResultDiscarded ==
    (pc = "idle" /\ executes >= 1 /\ (df # <<>> \/ description # <<>>))
    => df_execute = executes

\* C4: when the backend has reported FAILED or CANCELED, in the submit
\* response or in a poll response, execute ends with "Databricks query
\* failed: <the reported message>", not with another error.
C4_FailedRaisesStatementError ==
    (pc = "idle" /\ Terminal(reported) /\ reported[1].state \in {"FAILED", "CANCELED"})
    => outcome = QueryFailed(ErrorMessage(reported[1]))

\* C5: a submit response with status SUCCEEDED, with or without a
\* statement_id, ends the execute at once: its payload is the final payload,
\* and no GET and no sleep has happened.
C5_SucceededSubmitShortCircuits ==
    (initial # <<>> /\ initial[1].state = "SUCCEEDED")
    => /\ pc = "idle"
       /\ posts = 1
       /\ gets = 0
       /\ sleeps = 0
       /\ final_payload = initial
       /\ outcome \in {Returned, ValueError}

\* C5's case: a SUCCEEDED submit response without statement_id was used as
\* the result
C5_Witness ==
    /\ initial # <<>>
    /\ initial[1].state = "SUCCEEDED"
    /\ ~Truthy(initial[1].statement_id)
    /\ outcome = Returned
    /\ df = <<run_query(initial[1])>>
    /\ HeldRows # <<>>

\* C6: a submit response that is not SUCCEEDED and has no statement_id
\* (absent or empty) makes execute raise "missing statement_id" at once,
\* with no GET and no sleep.
C6_MissingIdFailsFast ==
    (initial # <<>> /\ initial[1].state # "SUCCEEDED" /\ ~Truthy(initial[1].statement_id))
    => /\ pc = "idle"
       /\ outcome = MissingStatementId
       /\ posts = 1
       /\ gets = 0
       /\ sleeps = 0

\* C6's case: a RUNNING submit response with an empty statement_id
C6_Witness ==
    /\ initial # <<>>
    /\ initial[1].state = "RUNNING"
    /\ initial[1].statement_id = ""
    /\ outcome = MissingStatementId
    /\ gets = 0

\* C7: after close, whatever was executed before, the cursor holds no result
\* and no description and fetchall returns the empty sequence; closing again
\* changes nothing.
C7_CloseDiscards ==
    /\ [](closes >= 1 =>
            /\ df = <<>>
            /\ description = <<>>
            /\ (fetches >= 1 => fetched = << <<>> >>))
    /\ [][(closes >= 1 /\ closes' = closes + 1)
            => (df' = df /\ description' = description /\ outcome' = outcome)]_vars

\* C7's case: an execute returned rows, the cursor was closed twice, and
\* fetchall then returned the empty sequence
C7_Witness ==
    /\ closes = 2
    /\ outcome = Returned
    /\ FinalData # <<>>
    /\ FinalSchema # <<>>
    /\ fetched = << <<>> >>

\* C8: every fetchall returns the full row sequence of the held result (the
\* empty sequence when nothing is held or the result has no rows), and a
\* fetchall that follows a fetchall returns the same and leaves the result.
C8_FetchallRepeatable ==
    /\ [](fetches >= 1 => fetched = <<HeldRows>>)
    /\ [](fetches >= 1 /\ (executes = 0 \/ df = <<>> \/ Len(df[1].rows) = 0)
            => fetched = << <<>> >>)
    /\ [][(fetches >= 1 /\ fetches' = fetches + 1)
            => (fetched' = fetched /\ df' = df /\ description' = description)]_vars

\* C8's case: fetchall was called twice on a result with rows
C8_Witness ==
    /\ fetches = 2
    /\ outcome = Returned
    /\ fetched # << <<>> >>
    /\ fetched = <<FinalData>>

C10_ColumnAndRowOrder ==
    (/\ pc = "idle"
     /\ outcome = Returned
     /\ final_payload # <<>>
     /\ ~SchemaMissingOrEmpty(final_payload[1])
     /\ closes = 0)
    => /\ description # <<>>
       /\ Len(description[1]) = Len(FinalSchema)
       /\ \A i \in 1..Len(FinalSchema) : description[1][i][1] = FinalSchema[i].name
       /\ fetches >= 1 =>
            /\ Len(fetched[1]) = Len(FinalData)
            /\ \A r \in 1..Len(FinalData) :
                 /\ Len(fetched[1][r]) = Len(description[1])
                 /\ \A i \in 1..Len(FinalData[r]) : fetched[1][r][i] = FinalData[r][i]

\* C10's case: schema [colB, colA] with the rows [2, 1] and [1, 2]
C10_Witness ==
    /\ outcome = Returned
    /\ final_payload # <<>>
    /\ FinalSchema = <<[name |-> "colB"], [name |-> "colA"]>>
    /\ FinalData = << <<"2", "1">>, <<"1", "2">> >>
    /\ description # <<>>
    /\ description[1][1][1] = "colB"
    /\ description[1][2][1] = "colA"
    /\ fetched = << << <<"2", "1">>, <<"1", "2">> >> >>

\* what the later claims read
FailedOrCanceled(reports) == reports # <<>> /\ reports[1].state \in {"FAILED", "CANCELED"}
\* the first terminal status of this execute came in a GET response
TerminalByGet ==
    /\ initial # <<>>
    /\ initial[1].state \notin TerminalStates
    /\ reported # <<>>
\* status.error carries no usable message
NoUsableMessage(payload) == payload.error = <<>> \/ payload.error[1] \in {Absent, Null, ""}

\* C13: every execute issues exactly one POST, and once it has seen a FAILED
\* or CANCELED status or has raised (timeout, missing statement_id, HTTP
\* error), it issues no further POST or GET.
C13_NoRetry ==
    /\ [](executes >= 1 => posts = 1)
    /\ [][(executes' = executes /\ (FailedOrCanceled(reported) \/ outcome.kind = "raised"))
            => (posts' = posts /\ gets' = gets)]_vars

\* C15: within one execute GETs and sleeps alternate: before a GET as many
\* sleeps as GETs have happened, after the last GET one less, none before
\* the first GET, and every sleep lasts poll_interval.
C15_GetSleepAlternation ==
    /\ pc = "poll" => sleeps = gets
    /\ pc = "sleep" => (gets >= 1 /\ sleeps + 1 = gets)
    /\ pc = "idle" => ((gets = 0 /\ sleeps = 0) \/ sleeps + 1 = gets)
    /\ slept = sleeps * poll_interval

\* C15's case: an execute that ended at its third GET, after two sleeps
C15_Witness ==
    /\ pc = "idle"
    /\ outcome = Returned
    /\ gets = 3
    /\ sleeps = 2
    /\ slept = 2 * DefaultPollInterval

\* C17: a polled FAILED or CANCELED status whose error carries no usable
\* message (no error object, no message, a null or empty message) makes
\* execute raise "Databricks query failed: Unknown Databricks error.".
C17_GenericMessageWhenOmitted ==
    (/\ pc = "idle"
     /\ TerminalByGet
     /\ FailedOrCanceled(reported)
     /\ NoUsableMessage(reported[1]))
    => outcome = QueryFailed(UnknownError)

\* C18: with max_poll_attempts = N >= 1, when the k-th GET (k <= N) is the
\* first response with a terminal status, execute ends at that GET with
\* that status's outcome: the payload for SUCCEEDED, the statement error for
\* FAILED and CANCELED, never the timeout.
C18_TerminalAtKthGet ==
    (TerminalByGet /\ max_poll_attempts # <<>> /\ Budget >= 1)
    => /\ pc = "idle"
       /\ gets >= 1
       /\ gets <= Budget
       /\ attempts = gets - 1
       /\ reported[1].state = "SUCCEEDED"
            => (outcome \in {Returned, ValueError} /\ final_payload = reported)
       /\ FailedOrCanceled(reported)
            => outcome = QueryFailed(ErrorMessage(reported[1]))

\* C18's case: SUCCEEDED reported by the N-th GET, N = 2
C18_Witness ==
    /\ TerminalByGet
    /\ max_poll_attempts = <<2>>
    /\ gets = 2
    /\ reported[1].state = "SUCCEEDED"
    /\ outcome = Returned
    /\ df = <<run_query(reported[1])>>

\* C20: _df and description are None together, and when a result is held
\* description has one entry per column of it, in order, and every tuple
\* fetchall returned has as many values as description has entries.
C20_FrameAndDescriptionAgree ==
    /\ (df = <<>>) <=> (description = <<>>)
    /\ df # <<>> =>
         /\ Len(description[1]) = Len(df[1].columns)
         /\ \A i \in 1..Len(df[1].columns) : description[1][i][1] = df[1].columns[i]
    /\ (fetches >= 1 /\ description # <<>>) =>
         \A r \in 1..Len(fetched[1]) : Len(fetched[1][r]) = Len(description[1])

\* C20's case: a result with two columns still held after a second execute
\* raised, and fetched
C20_Witness ==
    /\ executes = 2
    /\ outcome.kind = "raised"
    /\ df # <<>>
    /\ Len(description[1]) = 2
    /\ fetches >= 1
    /\ Len(fetched[1]) = 1
    /\ Len(fetched[1][1]) = 2

\* C14: with max_poll_attempts unset execute never raises the timeout error;
\* an execute that polled ends only at a terminal status (or an HTTP error),
\* with that status's outcome; and against a backend that eventually reports
\* a terminal status every execute eventually ends.
C14_UnsetBudgetPollsUntilTerminal ==
    /\ [](max_poll_attempts = <<>> /\ outcome # TimedOut)
    /\ []((pc = "idle" /\ gets >= 1 /\ outcome # HTTPError) => Terminal(reported))
    /\ [](TerminalByGet =>
            /\ pc = "idle"
            /\ reported[1].state = "SUCCEEDED"
                 => (outcome \in {Returned, ValueError} /\ final_payload = reported)
            /\ FailedOrCanceled(reported)
                 => outcome = QueryFailed(ErrorMessage(reported[1])))
    /\ (pc # "idle") ~> (pc = "idle")

\* C14's case: no budget, two non-terminal GETs, then SUCCEEDED at the third
C14_Witness ==
    /\ max_poll_attempts = <<>>
    /\ TerminalByGet
    /\ gets = MaxGets
    /\ sleeps = MaxGets - 1
    /\ outcome = Returned

\* C19: with an integer max_poll_attempts every execute issues one POST and
\* at most max(N, 1) GETs whatever the backend answers, a missing or
\* unrecognised status counting as non-terminal, and eventually ends.
C19_IntegerBudgetTerminates ==
    /\ [](max_poll_attempts # <<>>)
    /\ [](posts <= 1 /\ gets <= (IF Budget >= 1 THEN Budget ELSE 1))
    /\ []((outcome = TimedOut) => (gets >= 1 /\ attempts = gets /\ attempts >= Budget))
    /\ (pc # "idle") ~> (pc = "idle")

\* C19's case: the budget spent on responses without a status and with the
\* unrecognised status CLOSED
C19_Witness ==
    /\ max_poll_attempts = <<MaxAttempts>>
    /\ initial # <<>>
    /\ initial[1].state \in {Absent, "CLOSED"}
    /\ gets = MaxAttempts
    /\ outcome = TimedOut
    /\ pc = "idle"

\* what one cursor holds follows from its own calls and its own responses
OwnResult(c) ==
    /\ c.executes = 0 => (c.df = <<>> /\ c.description = <<>> /\ c.posts = 0 /\ c.gets = 0)
    /\ c.closes >= 1 => (c.df = <<>> /\ c.description = <<>>)
    /\ (c.outcome = Returned /\ c.closes = 0) =>
         /\ c.df = <<run_query(c.final_payload[1])>>
         /\ c.description = <<DescriptionOf(run_query(c.final_payload[1]))>>
    /\ c.df # <<>> => (c.df_execute >= 1 /\ c.df_execute <= c.executes)
    /\ c.fetches >= 1 => c.fetched = <<fetchall(c.df)>>

\* C16: under every interleaving of the steps of two cursors, each cursor's
\* _df, description and fetched rows follow from its own responses alone, a
\* step of one cursor leaves every attribute of the other as it was, and a
\* cursor finds its state as it left it when its call path runs again.
C16_CursorsIndependent ==
    /\ [](OwnResult(CursorState) /\ OwnResult(peer[1]))
    /\ [][current' = current => peer' = peer]_vars
    /\ [][current' # current => (peer' = <<CursorState>> /\ CursorState' = peer[1])]_vars

\* C16's case: both cursors hold a result, different ones, one of them
\* fetched after the other's execute
C16_Witness ==
    /\ peer # <<>>
    /\ current = 2
    /\ outcome = Returned
    /\ peer[1].outcome = Returned
    /\ df # <<>>
    /\ peer[1].df # <<>>
    /\ df # peer[1].df
    /\ fetches >= 1
    /\ peer[1].fetches >= 1

\* what the factory claims read
ConfigurationErrors == {"ValueError", "TypeError"}
FactoryDone == factory_outcome # NoOutcome
NoNetworkCall == posts = 0 /\ gets = 0
TypeUnsupported ==
    \/ config.type \in {Absent, Null, "", JsonZero, JsonNumber}
    \/ upper(config.type) \notin SupportedTypes

\* C11: a configuration whose type is missing, empty or not a supported kind
\* (compared without case) makes the factory raise a configuration error,
\* produce no connector and send nothing; with a supported type the factory
\* produces no connector other than the variant whose type tag is the
\* upper-cased kind, and produces it when the parameters are accepted.
C11_FactoryByType ==
    FactoryDone =>
        /\ TypeUnsupported =>
             /\ factory_outcome.kind = "raised"
             /\ factory_outcome.exc \in ConfigurationErrors
             /\ connector = <<>>
             /\ connection = <<>>
             /\ NoNetworkCall
        /\ ~TypeUnsupported =>
             /\ connector # <<>> => connector[1].type = upper(config.type)
             /\ (factory_outcome = Returned) <=> (connector # <<>>)
             /\ NoNetworkCall

\* C12: the Databricks connector given no token or no warehouse id, or a
\* null or empty one, raises a configuration error at construction, and then
\* no connection exists and nothing has been sent; a constructed Databricks
\* connector, and the connection made from it, hold a non-empty token and
\* warehouse id.
C12_RestConnectorNeedsCredentials ==
    /\ (/\ FactoryDone
        /\ ~TypeUnsupported
        /\ upper(config.type) = "DATABRICKS"
        /\ \/ ~ParamTruthy(Arg(config.params, "token", Absent))
           \/ ~ParamTruthy(Arg(config.params, "warehouse_id", Absent)))
       => /\ factory_outcome.kind = "raised"
          /\ factory_outcome.exc \in ConfigurationErrors
          /\ connector = <<>>
          /\ connection = <<>>
          /\ NoNetworkCall
    /\ (connector # <<>> /\ connector[1].type = "DATABRICKS")
       => /\ ParamTruthy(connector[1].kwargs["token"])
          /\ ParamTruthy(connector[1].kwargs["warehouse_id"])
          /\ NoNetworkCall
    /\ connection # <<>>
       => (ParamTruthy(connection[1].token) /\ ParamTruthy(connection[1].warehouse_id))

\* C12's case: a Databricks connector constructed from a lower-case type,
\* with its connection made
C12_Witness ==
    /\ config.type = "databricks"
    /\ connector # <<>>
    /\ connector[1].type = "DATABRICKS"
    /\ connector[1].kwargs["token"] = "secret"
    /\ connection # <<>>
    /\ connection[1].warehouse_id = "secret"

\* C22: given one configuration mapping, _connector_from_config and
\* _build_connector both raise, with the same exception class, or both
\* return a connector of the same variant holding the same parameters, which
\* are the mapping's keys other than "type".
C22_FactoriesEquivalent ==
    (FactoryDone /\ built # <<>>) =>
        /\ factory_outcome.kind = built[1].outcome.kind
        /\ factory_outcome.exc = built[1].outcome.exc
        /\ connector = built[1].connector
        /\ connector # <<>> =>
             /\ connector[1].type = upper(config.type)
             /\ connector[1].kwargs = config.params
        /\ TypeUnsupported => (factory_outcome.kind = "raised" /\ built[1].outcome.kind = "raised")

\* C22's case: a lower-case type with one key more than required, and both
\* factories giving the Snowflake connector that keeps it
C22_Witness ==
    /\ config.type = "snowflake"
    /\ "extra" \in DOMAIN config.params
    /\ FactoryDone
    /\ built # <<>>
    /\ built[1].outcome = Returned
    /\ connector = built[1].connector
    /\ connector[1].type = "SNOWFLAKE"
    /\ connector[1].kwargs["extra"] = "value"

\* C21: in each front-end, a request that ended in its error branch leaves
\* the cached client None and one that succeeded leaves a client cached; a
\* request that succeeds with no client cached constructs one new client and
\* caches it; a request that succeeds after one that succeeded keeps the same
\* client and constructs none; a request that returns early on invalid input
\* leaves the cached client and the clients constructed as they were.
C21_ClientCache ==
    /\ [](\A f \in FrontEnds :
            /\ ended[f] = "error" => Cache(f) = <<>>
            /\ ended[f] = "ok" => Cache(f) # <<>>
            /\ Cache(f) # <<>> => Cache(f) = <<constructed[f]>>)
    /\ [][\A f \in FrontEnds :
            /\ (Cache(f) = <<>> /\ ended'[f] = "ok" /\ requests' # requests)
                 => (constructed'[f] = constructed[f] + 1 /\ Cache(f)' = <<constructed'[f]>>)
            /\ (ended[f] = "ok" /\ ended'[f] = "ok")
                 => (Cache(f)' = Cache(f) /\ constructed'[f] = constructed[f])
            /\ (ended'[f] = "early")
                 => (Cache(f)' = Cache(f) /\ constructed'[f] = constructed[f])]_vars

\* C21's case: the tool server's third request succeeded on its second
\* client, after an error reset the first one
C21_Witness ==
    /\ requests = 3
    /\ ended["mcp"] = "ok"
    /\ constructed["mcp"] = 2
    /\ CLIENT = <<2>>
    /\ SQL_CLIENT = <<>>

====
